---- MODULE Spec2Model ----
(***************************************************************************)
(* Inventory counting page (static/js/script.js) together with the Catalog *)
(* and Ledger services it talks to.  The browser side is translated from   *)
(* the script; the server side (routes /search_product,                    *)
(* /add_to_selected_lot, /add_to_last_counted_lot, /update_counted_product,*)
(* /delete_counted_product, /clear_counted_products, /get_counted_products)*)
(* is modelled from the written specification of the Ledger and the        *)
(* Catalog.                                                                *)
(***************************************************************************)
EXTENDS Integers, Sequences, FiniteSets, TLC

\* ------------------------------------------------------------------ bounds
\* requests the operator may start (scan, add, save, delete, clear) when
\* each is answered before the next is started
MaxOps == 5
\* the same when an earlier session left entries in the store
MaxOpsStored == 3
\* requests the operator may start, and requests that may be in flight at the
\* same time, when the operator does not wait for the answers
MaxOpsAsync == 3
MaxInFlight == 2

\* requests the operator may start when an answer may also be lost on its
\* way back from the server
MaxOpsLossy == 4
MaxOpsRecount == 3

\* ------------------------------------------------------------- option type
None == <<>>
Some(x) == <<x>>
IsSome(o) == Len(o) = 1
Get(o) == o[1]

\* ------------------------------------------------------------------- texts
\* A text (the value of an input element, a JSON string) is a sequence of
\* one-character strings.
Digits == <<"0", "1", "2", "3", "4", "5", "6", "7", "8", "9">>
IsDigit(c) == \E i \in 1..10 : Digits[i] = c
DigitVal(c) == (CHOOSE i \in 1..10 : Digits[i] = c) - 1

RECURSIVE NatStr(_)
NatStr(n) == IF n < 10 THEN <<Digits[n + 1]>>
             ELSE NatStr(n \div 10) \o <<Digits[(n % 10) + 1]>>
\* String(n) for an integer n, as assigning a number to input.value does
IntStr(n) == IF n < 0 THEN <<"-">> \o NatStr(0 - n) ELSE NatStr(n)

\* the value of a number; NaN has no value
NaN == [nan |-> TRUE, n |-> 0]
Num(n) == [nan |-> FALSE, n |-> n]

RECURSIVE SkipSpaces(_)
SkipSpaces(s) == IF s # <<>> /\ Head(s) = " " THEN SkipSpaces(Tail(s)) ELSE s
RECURSIVE ParseDigits(_, _, _)
ParseDigits(s, acc, seen) ==
    IF s # <<>> /\ IsDigit(Head(s))
    THEN ParseDigits(Tail(s), acc * 10 + DigitVal(Head(s)), TRUE)
    ELSE [seen |-> seen, n |-> acc]
\* JavaScript parseInt(text): leading blanks, an optional sign, then the
\* longest run of digits; NaN when there is no digit
parseInt(s) ==
    LET t == SkipSpaces(s)
        neg == t # <<>> /\ Head(t) = "-"
        u == IF t # <<>> /\ Head(t) \in {"-", "+"} THEN Tail(t) ELSE t
        d == ParseDigits(u, 0, FALSE)
    IN IF d.seen THEN Num(IF neg THEN 0 - d.n ELSE d.n) ELSE NaN
\* JavaScript (x || dflt) for a number x: NaN and 0 are falsy
OrDefault(x, dflt) == IF x.nan \/ x.n = 0 THEN dflt ELSE x.n

\* ------------------------------------------------------ quantity calculator
\* updateEditTotalQuantity: the total shown for the two input texts
updateEditTotalQuantity(baseText, multText) ==
    LET base == OrDefault(parseInt(baseText), 0)
        mult == OrDefault(parseInt(multText), 1)
    IN base * mult
\* updateEditQuantidadeTotal: the earlier variant of the same calculator
updateEditQuantidadeTotal(baseText, multText) ==
    LET quantidadeBase == OrDefault(parseInt(baseText), 0)
        multiplicador == OrDefault(parseInt(multText), 0)
    IN quantidadeBase * multiplicador

\* ------------------------------------------------------------ master data
\* The products the Catalog knows, by barcode, and the lots it may report.
ProductP1 == [codigo_produto |-> "P1", nome_produto |-> "Produto 1",
              codigo_barras |-> "789123", unidade_venda |-> "CX",
              multiplicador_sugerido |-> 3]
ProductP2 == [codigo_produto |-> "P2", nome_produto |-> "Produto 2",
              codigo_barras |-> "789456", unidade_venda |-> "UN",
              multiplicador_sugerido |-> 1]
Products == {ProductP1, ProductP2}
UnknownBarcode == "000000"
Barcodes == {"789123", "789456", UnknownBarcode, ""}
LotA == [lote |-> "L1", data_fabricacao |-> "D1", data_validade |-> "V1"]
LotB == [lote |-> "L1", data_fabricacao |-> "D1", data_validade |-> "V2"]
\* the lots the Catalog may report at a lookup: P1's lots change over time,
\* P2 always has the single lot A
LotLists == {<<LotA>>, <<LotA, LotB>>, <<LotB>>, <<>>}
Catalogs == {[p \in {"P1", "P2"} |-> IF p = "P1" THEN l ELSE <<LotA>>] : l \in LotLists}
\* what the operator may type as the quantity of the lot selection dialog
QuantityTexts == {<<>>, <<"a">>, IntStr(0 - 1), IntStr(0), IntStr(1), IntStr(2)}

VARIABLES
    ledger,                \* Ledger: the counted entries, in creation order
    nextId,                \* Ledger: the id the next created entry gets
    recency,               \* Ledger: entry ids, least recently touched first
    currentProductDetails, \* None or Some(response of the last lookup)
    productDetailsCard,    \* TRUE when the details card is displayed
    table,                 \* rows of countedProductsTableBody
    selectLotModal,        \* the lot selection dialog
    editProductModal,      \* the edit dialog and its form
    tasks,                 \* handlers waiting for the answer to a request
    flash,                 \* type of the last message shown
    ops,                   \* requests the operator has started
    limit                  \* the bounds of this run: [ops, inflight]

vars == <<ledger, nextId, recency, currentProductDetails,
          productDetailsCard, table, selectLotModal, editProductModal,
          tasks, flash, ops, limit>>
server == <<ledger, nextId, recency>>

\* ------------------------------------------------- Ledger and Catalog
SameLot(a, b) ==
    /\ a.lote = b.lote
    /\ a.data_fabricacao = b.data_fabricacao
    /\ a.data_validade = b.data_validade
SameTuple(a, b) == a.codigo_produto = b.codigo_produto /\ SameLot(a, b)

Ids(l) == {l[i].id : i \in 1..Len(l)}
IndexOfId(l, id) == CHOOSE i \in 1..Len(l) : l[i].id = id
\* mutant: the stored total is left as it was
WithTotalStale(e) == e
WithTotal(e) == [e EXCEPT !.quantidade_total = e.quantidade_base * e.multiplicador_usado]
\* the id moves to the most recent end
Touch(r, id) == SelectSeq(r, LAMBDA x : x # id) \o <<id>>

\* most recently created or touched entry of the product, if any
LastCountedLot(l, r, code) ==
    LET mine == SelectSeq(r, LAMBDA id : l[IndexOfId(l, id)].codigo_produto = code)
    IN IF mine = <<>> THEN None ELSE Some(l[IndexOfId(l, mine[Len(mine)])])

Reply(l, n, r, resp) == [ledger |-> l, nextId |-> n, recency |-> r, resp |-> resp]
Failure == [error |-> FALSE, success |-> FALSE]

\* Catalog.lookup with the product's last counted entry; catalog is the
\* product code -> lots table at the time of the lookup
SearchProduct(req, catalog) ==
    IF \E p \in Products : p.codigo_barras = req.barcode
    THEN LET p == CHOOSE q \in Products : q.codigo_barras = req.barcode
         IN Reply(ledger, nextId, recency,
                  [error |-> FALSE, success |-> TRUE, product |-> p,
                   lotes |-> catalog[p.codigo_produto],
                   last_counted_lot |-> LastCountedLot(ledger, recency, p.codigo_produto)])
    ELSE Reply(ledger, nextId, recency, Failure)

\* mutant: an increment also resets the entry's multiplier to the suggested one
AddToSelectedLotResettingMultiplier(req) ==
    IF \E i \in 1..Len(ledger) : SameTuple(ledger[i], req)
    THEN LET i == CHOOSE j \in 1..Len(ledger) : SameTuple(ledger[j], req)
             e == WithTotal([ledger[i] EXCEPT
                      !.quantidade_base = ledger[i].quantidade_base + req.quantidade_base,
                      !.multiplicador_usado = req.multiplicador_sugerido])
             l == [ledger EXCEPT ![i] = e]
         IN Reply(l, nextId, Touch(recency, e.id),
                  [error |-> FALSE, success |-> TRUE, counted_products |-> l])
    ELSE LET e == WithTotal([id |-> nextId,
                             codigo_produto |-> req.codigo_produto,
                             codigo_barras |-> req.codigo_barras,
                             nome_produto |-> req.nome_produto,
                             lote |-> req.lote,
                             data_fabricacao |-> req.data_fabricacao,
                             data_validade |-> req.data_validade,
                             quantidade_base |-> req.quantidade_base,
                             multiplicador_usado |-> req.multiplicador_sugerido,
                             quantidade_total |-> 0])
             l == Append(ledger, e)
         IN Reply(l, nextId + 1, Touch(recency, e.id),
                  [error |-> FALSE, success |-> TRUE, counted_products |-> l])
\* createOrIncrement: one entry per (product, lot, dates)
AddToSelectedLot(req) ==
    IF \E i \in 1..Len(ledger) : SameTuple(ledger[i], req)
    THEN LET i == CHOOSE j \in 1..Len(ledger) : SameTuple(ledger[j], req)
             e == WithTotal([ledger[i] EXCEPT
                      !.quantidade_base = ledger[i].quantidade_base + req.quantidade_base])
             l == [ledger EXCEPT ![i] = e]
         IN Reply(l, nextId, Touch(recency, e.id),
                  [error |-> FALSE, success |-> TRUE, counted_products |-> l])
    ELSE LET e == WithTotal([id |-> nextId,
                             codigo_produto |-> req.codigo_produto,
                             codigo_barras |-> req.codigo_barras,
                             nome_produto |-> req.nome_produto,
                             lote |-> req.lote,
                             data_fabricacao |-> req.data_fabricacao,
                             data_validade |-> req.data_validade,
                             quantidade_base |-> req.quantidade_base,
                             multiplicador_usado |-> req.multiplicador_sugerido,
                             quantidade_total |-> 0])
             l == Append(ledger, e)
         IN Reply(l, nextId + 1, Touch(recency, e.id),
                  [error |-> FALSE, success |-> TRUE, counted_products |-> l])

\* mutant: the increment also puts the entry's multiplier back to 1
AddToLastCountedLotUnitMultiplier(req) ==
    IF req.id \in Ids(ledger)
    THEN LET i == IndexOfId(ledger, req.id)
             e == WithTotal([ledger[i] EXCEPT
                      !.quantidade_base = ledger[i].quantidade_base + req.quantity_to_add,
                      !.multiplicador_usado = 1])
             l == [ledger EXCEPT ![i] = e]
         IN Reply(l, nextId, Touch(recency, e.id),
                  [error |-> FALSE, success |-> TRUE, counted_products |-> l])
    ELSE Reply(ledger, nextId, recency, Failure)
\* increment of an existing entry by id
AddToLastCountedLot(req) ==
    IF req.id \in Ids(ledger)
    THEN LET i == IndexOfId(ledger, req.id)
             e == WithTotal([ledger[i] EXCEPT
                      !.quantidade_base = ledger[i].quantidade_base + req.quantity_to_add])
             l == [ledger EXCEPT ![i] = e]
         IN Reply(l, nextId, Touch(recency, e.id),
                  [error |-> FALSE, success |-> TRUE, counted_products |-> l])
    ELSE Reply(ledger, nextId, recency, Failure)

\* validation of the edited quantities: base >= 0, multiplier >= 1
ClampBase(text) == LET x == parseInt(text) IN IF x.nan \/ x.n < 0 THEN 0 ELSE x.n
ClampMultiplier(text) == LET x == parseInt(text) IN IF x.nan \/ x.n < 1 THEN 1 ELSE x.n

\* mutant: the lot fields are written, the quantities are not
UpdateCountedProductLotOnly(req) ==
    LET id == parseInt(req.id)
    IN IF ~id.nan /\ id.n \in Ids(ledger)
       THEN LET i == IndexOfId(ledger, id.n)
                l == [ledger EXCEPT ![i].lote = req.lote,
                                    ![i].data_fabricacao = req.data_fabricacao,
                                    ![i].data_validade = req.data_validade]
            IN Reply(l, nextId, Touch(recency, id.n), [error |-> FALSE, success |-> TRUE])
       ELSE Reply(ledger, nextId, recency, Failure)
\* setAbsolute: overwrite the named fields of the entry with that id
UpdateCountedProduct(req) ==
    LET id == parseInt(req.id)
    IN IF ~id.nan /\ id.n \in Ids(ledger)
       THEN LET i == IndexOfId(ledger, id.n)
                e == WithTotal([ledger[i] EXCEPT
                         !.quantidade_base = ClampBase(req.quantidade_base),
                         !.multiplicador_usado = ClampMultiplier(req.multiplicador_usado),
                         !.lote = req.lote,
                         !.data_fabricacao = req.data_fabricacao,
                         !.data_validade = req.data_validade])
                l == [ledger EXCEPT ![i] = e]
            IN Reply(l, nextId, Touch(recency, e.id), [error |-> FALSE, success |-> TRUE])
       ELSE Reply(ledger, nextId, recency, Failure)

\* delete(entryId)
DeleteCountedProduct(req) ==
    IF req.id \in Ids(ledger)
    THEN Reply(SelectSeq(ledger, LAMBDA e : e.id # req.id), nextId,
               SelectSeq(recency, LAMBDA x : x # req.id),
               [error |-> FALSE, success |-> TRUE])
    ELSE Reply(ledger, nextId, recency, Failure)

\* clearAll
ClearCountedProducts(req) ==
    Reply(<<>>, nextId, <<>>, [error |-> FALSE, success |-> TRUE])

\* listAll, in creation order
GetCountedProducts(req) ==
    Reply(ledger, nextId, recency, [error |-> FALSE, counted_products |-> ledger])

\* -------------------------------------------------------- grouped table
EmptyRow == [kind |-> "empty"]
GroupRow(product) ==
    [kind |-> "group", codigo_produto |-> product.codigo_produto,
     nome_produto |-> product.nome_produto, codigo_barras |-> product.codigo_barras]
\* mutant: the quantity cell shows the total alone, whatever the multiplier
QtdTextTotalOnly(product) == IntStr(product.quantidade_total)
\* the quantity cell of a lot row
QtdText(product) ==
    IF product.multiplicador_usado # 0 /\ product.multiplicador_usado # 1
    THEN IntStr(product.quantidade_total) \o <<" ", "(">>
         \o IntStr(product.quantidade_base) \o <<" ", "x">>
         \o IntStr(product.multiplicador_usado) \o <<")">>
    ELSE IntStr(product.quantidade_total)
ItemRow(product, rowCount) ==
    [kind |-> "item", n |-> rowCount, product |-> product, qtdText |-> QtdText(product)]

\* products.forEach of updateCountedProductsTable, from entry i on
RECURSIVE ForEachProduct(_, _, _, _, _)
ForEachProduct(products, i, currentCodigoProduto, rowCount, rows) ==
    IF i > Len(products) THEN rows
    ELSE LET product == products[i]
             newGroup == currentCodigoProduto # Some(product.codigo_produto)
             withGroup == IF newGroup THEN Append(rows, GroupRow(product)) ELSE rows
         IN ForEachProduct(products, i + 1, Some(product.codigo_produto), rowCount + 1,
                           Append(withGroup, ItemRow(product, rowCount + 1)))

\* mutant: the body is not emptied before the rows are added
updateCountedProductsTableKeepingRows(tbody, products) ==
    IF Len(products) = 0 THEN Append(tbody, EmptyRow)
    ELSE ForEachProduct(products, 1, None, 0, tbody)
\* the table body after updateCountedProductsTable(products); tbody is the
\* body before the call
updateCountedProductsTable(tbody, products) ==
    LET cleared == <<>>
    IN IF Len(products) = 0 THEN Append(cleared, EmptyRow)
       ELSE ForEachProduct(products, 1, None, 0, cleared)

\* ------------------------------------------------------------- requests
\* a handler waiting at its fetch: local holds what it keeps across the await
Sent(handler, route, req, local) ==
    [handler |-> handler, route |-> route, req |-> req, local |-> local,
     resp |-> None]
NetworkFailure == [error |-> TRUE, success |-> FALSE]
RemoveAt(s, i) == SubSeq(s, 1, i - 1) \o SubSeq(s, i + 1, Len(s))
\* the operator may start one more request
RequestsLeft == ops < limit.ops /\ Len(tasks) < limit.inflight
\* a shown dialog keeps the operator from the page behind it
PageUsable == ~selectLotModal.shown /\ ~editProductModal.shown

\* A hidden dialog holds nothing that is read before it is filled again.
HiddenSelectLotModal ==
    [shown |-> FALSE, productName |-> "", multiplicador |-> 0, rows |-> <<>>]
HiddenEditProductModal ==
    [shown |-> FALSE, id |-> <<>>, quantidade_base |-> <<>>,
     multiplicador_usado |-> <<>>, lote |-> "", data_fabricacao |-> "",
     data_validade |-> "", quantidade_total |-> <<>>]

\* the available lot with the lot code and dates of the last counted lot
MatchingAvailableLot(availableLotes, lastCountedLot) ==
    \E k \in 1..Len(availableLotes) : SameLot(availableLotes[k], lastCountedLot)
\* mutant: the increment asks for two units
IncrementRequestOfTwo(countedProductId) ==
    [id |-> countedProductId, quantity_to_add |-> 2]
\* body of the request of addProductToLastCountedLot
IncrementRequest(countedProductId) == [id |-> countedProductId, quantity_to_add |-> 1]

\* mutant: the request carries multiplier 1 instead of the suggested one
ProductDataUnitMultiplier(details, lot, quantityBase) ==
    [codigo_produto |-> details.product.codigo_produto,
     nome_produto |-> details.product.nome_produto,
     codigo_barras |-> details.product.codigo_barras,
     multiplicador_sugerido |-> 1,
     lote |-> lot.lote,
     data_fabricacao |-> lot.data_fabricacao,
     data_validade |-> lot.data_validade,
     quantidade_base |-> quantityBase]
\* mutant: the lot code posted is one typed by hand, not the looked-up lot's
ProductDataTypedLot(details, lot, quantityBase) ==
    [codigo_produto |-> details.product.codigo_produto,
     codigo_barras |-> details.product.codigo_barras,
     nome_produto |-> details.product.nome_produto,
     lote |-> "L2",
     data_fabricacao |-> lot.data_fabricacao,
     data_validade |-> lot.data_validade,
     quantidade_base |-> quantityBase,
     multiplicador_sugerido |-> details.product.multiplicador_sugerido]
\* productData of addSelectedLotToCount and of the default lot button
ProductData(details, lot, quantityBase) ==
    [codigo_produto |-> details.product.codigo_produto,
     codigo_barras |-> details.product.codigo_barras,
     nome_produto |-> details.product.nome_produto,
     lote |-> lot.lote,
     data_fabricacao |-> lot.data_fabricacao,
     data_validade |-> lot.data_validade,
     quantidade_base |-> quantityBase,
     multiplicador_sugerido |-> details.product.multiplicador_sugerido]

\* findIndex over the current lots, 0-based, -1 when absent
FindLotIndex(lotes, lot) ==
    IF \E k \in 1..Len(lotes) : SameLot(lotes[k], lot)
    THEN (CHOOSE k \in 1..Len(lotes) :
              SameLot(lotes[k], lot) /\ \A j \in 1..(k - 1) : ~SameLot(lotes[j], lot)) - 1
    ELSE 0 - 1

\* mutant: quantity 0 is let through
AddSelectedLotDecisionAcceptingZero(override, quantityOverride, selectedRadio, quantityText) ==
    IF ~IsSome(currentProductDetails) THEN [outcome |-> "warning"]
    ELSE LET details == Get(currentProductDetails)
             fromModal == ~IsSome(override)
             selectedLotIndex ==
                 IF fromModal THEN parseInt(Get(selectedRadio)).n
                 ELSE FindLotIndex(details.lotes, Get(override))
             quantityBase ==
                 IF ~fromModal THEN Num(Get(override).quantidade_base)
                 ELSE IF IsSome(quantityOverride) THEN Num(Get(quantityOverride))
                 ELSE parseInt(quantityText)
         IN IF fromModal /\ ~IsSome(selectedRadio) THEN [outcome |-> "warning"]
            ELSE IF quantityBase.nan \/ quantityBase.n < 0 THEN [outcome |-> "warning"]
            ELSE IF selectedLotIndex + 1 \notin 1..Len(details.lotes)
                 THEN [outcome |-> "danger"]
            ELSE [outcome |-> "send",
                  req |-> ProductData(details, details.lotes[selectedLotIndex + 1],
                                      quantityBase.n)]
\* addSelectedLotToCount up to its request: what it reports or sends.
\* override is None or Some(productData), quantityOverride None or Some(n);
\* selectedRadio is None or Some(value of the checked radio button) and
\* quantityText the text of quantityBaseInput at the time of the click.
AddSelectedLotDecision(override, quantityOverride, selectedRadio, quantityText) ==
    IF ~IsSome(currentProductDetails) THEN [outcome |-> "warning"]
    ELSE LET details == Get(currentProductDetails)
             fromModal == ~IsSome(override)
             selectedLotIndex ==
                 IF fromModal THEN parseInt(Get(selectedRadio)).n
                 ELSE FindLotIndex(details.lotes, Get(override))
             quantityBase ==
                 IF ~fromModal THEN Num(Get(override).quantidade_base)
                 ELSE IF IsSome(quantityOverride) THEN Num(Get(quantityOverride))
                 ELSE parseInt(quantityText)
         IN IF fromModal /\ ~IsSome(selectedRadio) THEN [outcome |-> "warning"]
            ELSE IF quantityBase.nan \/ quantityBase.n <= 0 THEN [outcome |-> "warning"]
            ELSE IF selectedLotIndex + 1 \notin 1..Len(details.lotes)
                 THEN [outcome |-> "danger"]
            ELSE [outcome |-> "send",
                  req |-> ProductData(details, details.lotes[selectedLotIndex + 1],
                                      quantityBase.n)]

\* mutant: the form is filled with multiplier 1 whatever the entry holds
EditFormForUnitMultiplier(product) ==
    LET base == IntStr(product.quantidade_base)
        mult == IntStr(1)
    IN [shown |-> TRUE, id |-> IntStr(product.id), quantidade_base |-> base,
        multiplicador_usado |-> mult, lote |-> product.lote,
        data_fabricacao |-> product.data_fabricacao,
        data_validade |-> product.data_validade,
        quantidade_total |-> IntStr(updateEditTotalQuantity(base, mult))]
\* the form as openEditModal fills it for the entry of a table row
EditFormFor(product) ==
    LET base == IntStr(product.quantidade_base)
        mult == IntStr(IF product.multiplicador_usado = 0 THEN 1
                       ELSE product.multiplicador_usado)
    IN [shown |-> TRUE, id |-> IntStr(product.id), quantidade_base |-> base,
        multiplicador_usado |-> mult, lote |-> product.lote,
        data_fabricacao |-> product.data_fabricacao,
        data_validade |-> product.data_validade,
        quantidade_total |-> IntStr(updateEditTotalQuantity(base, mult))]

\* the form after the operator typed text into one of its inputs; the base
\* and multiplier inputs recompute the total on input
TypeInto(form, field, text) ==
    LET typed == [form EXCEPT ![field] = text]
    IN IF field \in {"quantidade_base", "multiplicador_usado"}
       THEN [typed EXCEPT !.quantidade_total =
                 IntStr(updateEditTotalQuantity(typed.quantidade_base,
                                                typed.multiplicador_usado))]
       ELSE typed
\* what the operator may type into the form before saving: per input
\* (base, multiplier, lot code, expiry date), None (left as filled) or
\* Some(text)
Edits ==
    {<<Some(IntStr(5)), None, None, None>>,
     <<Some(IntStr(3)), Some(IntStr(6)), None, None>>,
     <<Some(IntStr(0 - 1)), Some(IntStr(0)), None, None>>,
     <<Some(<<>>), Some(<<>>), None, None>>,
     <<None, None, None, Some("V1")>>,
     <<None, None, None, Some("V2")>>,
     <<None, None, Some("L2"), None>>}
TypeAll(form, base, mult, lote, validade) ==
    LET f1 == IF IsSome(base) THEN TypeInto(form, "quantidade_base", Get(base)) ELSE form
        f2 == IF IsSome(mult) THEN TypeInto(f1, "multiplicador_usado", Get(mult)) ELSE f1
        f3 == IF IsSome(lote) THEN TypeInto(f2, "lote", Get(lote)) ELSE f2
    IN IF IsSome(validade) THEN TypeInto(f3, "data_validade", Get(validade)) ELSE f3

\* mutant: base and multiplier inputs are read the wrong way round
EditedProductSwapped(form) ==
    [id |-> form.id,
     quantidade_base |-> form.multiplicador_usado,
     multiplicador_usado |-> form.quantidade_base,
     lote |-> form.lote,
     data_fabricacao |-> form.data_fabricacao,
     data_validade |-> form.data_validade]
\* editedProduct of the save button
EditedProduct(form) ==
    [id |-> form.id,
     quantidade_base |-> form.quantidade_base,
     multiplicador_usado |-> form.multiplicador_usado,
     lote |-> form.lote,
     data_fabricacao |-> form.data_fabricacao,
     data_validade |-> form.data_validade]

\* ------------------------------------------------------------ operator
\* Every step sets flash to the type of the message it shows, "none" when
\* it shows no message.

\* searchForm submit: a scan (or typed barcode and Enter)
SubmitSearch(barcode) ==
    /\ PageUsable
    /\ IF barcode = ""
       THEN /\ flash' = "warning"
            /\ UNCHANGED <<tasks, ops>>
       ELSE /\ RequestsLeft
            /\ tasks' = Append(tasks, Sent("search", "/search_product",
                                           [barcode |-> barcode], <<>>))
            /\ ops' = ops + 1
            /\ flash' = "none"
    /\ UNCHANGED <<server, currentProductDetails, productDetailsCard,
                   table, selectLotModal, editProductModal, limit>>

\* mutant: the dialog opens for a product without lots
OpenSelectLotModalWithoutLots ==
    IF ~IsSome(currentProductDetails)
    THEN /\ flash' = "warning"
         /\ UNCHANGED selectLotModal
    ELSE /\ selectLotModal' =
                [shown |-> TRUE,
                 productName |-> Get(currentProductDetails).product.nome_produto,
                 multiplicador |-> Get(currentProductDetails).product.multiplicador_sugerido,
                 rows |-> Get(currentProductDetails).lotes]
         /\ flash' = "none"
\* openSelectLotModal
OpenSelectLotModal ==
    IF \/ ~IsSome(currentProductDetails)
       \/ Len(Get(currentProductDetails).lotes) = 0
    THEN /\ flash' = "warning"
         /\ UNCHANGED selectLotModal
    ELSE /\ selectLotModal' =
                [shown |-> TRUE,
                 productName |-> Get(currentProductDetails).product.nome_produto,
                 multiplicador |-> Get(currentProductDetails).product.multiplicador_sugerido,
                 rows |-> Get(currentProductDetails).lotes]
         /\ flash' = "none"

\* addSelectedLotToCount: report, or send the add request
AddSelectedLotToCount(handler, override, quantityOverride, selectedRadio, quantityText) ==
    LET d == AddSelectedLotDecision(override, quantityOverride, selectedRadio, quantityText)
    IN IF d.outcome = "send"
       THEN /\ RequestsLeft
            /\ tasks' = Append(tasks, Sent(handler, "/add_to_selected_lot", d.req, <<>>))
            /\ ops' = ops + 1
            /\ flash' = "none"
       ELSE /\ flash' = d.outcome
            /\ UNCHANGED <<tasks, ops>>

\* addDefaultLotBtn click
AddDefaultLot ==
    /\ PageUsable
    /\ IF ~IsSome(currentProductDetails)
       THEN /\ flash' = "warning"
            /\ UNCHANGED <<tasks, ops, selectLotModal>>
       ELSE LET lastCountedLot == Get(currentProductDetails).last_counted_lot
                availableLotes == Get(currentProductDetails).lotes
            IN IF IsSome(lastCountedLot)
               THEN /\ RequestsLeft
                    /\ tasks' = Append(tasks,
                           Sent("defaultIncrement", "/add_to_last_counted_lot",
                                IncrementRequest(Get(lastCountedLot).id), <<>>))
                    /\ ops' = ops + 1
                    /\ flash' = "none"
                    /\ UNCHANGED selectLotModal
               ELSE IF Len(availableLotes) = 1
               THEN /\ AddSelectedLotToCount("defaultAdd",
                           Some(ProductData(Get(currentProductDetails),
                                            availableLotes[1], 1)), None, None, <<>>)
                    /\ UNCHANGED selectLotModal
               ELSE /\ OpenSelectLotModal
                    /\ UNCHANGED <<tasks, ops>>
    /\ UNCHANGED <<server, currentProductDetails, productDetailsCard,
                   table, editProductModal, limit>>

\* selectDifferentLotBtn click
SelectDifferentLot ==
    /\ PageUsable
    /\ OpenSelectLotModal
    /\ UNCHANGED <<server, currentProductDetails, productDetailsCard,
                   table, editProductModal, tasks, ops, limit>>

\* addManualLotBtn click
AddManualLot ==
    /\ PageUsable
    /\ IF \/ ~IsSome(currentProductDetails)
          \/ Len(Get(currentProductDetails).lotes) = 0
       THEN /\ flash' = "warning"
            /\ UNCHANGED selectLotModal
       ELSE OpenSelectLotModal
    /\ UNCHANGED <<server, currentProductDetails, productDetailsCard,
                   table, editProductModal, tasks, ops, limit>>

\* the radio buttons of the dialog: values 0 .. number of rows - 1, one of
\* them checked; none when the dialog lists no lot
Radios == IF Len(selectLotModal.rows) = 0 THEN {None}
          ELSE {Some(IntStr(k)) : k \in 0..(Len(selectLotModal.rows) - 1)}

\* addSelectedLotBtn click, with the radio button checked and the quantity
\* typed at that time
AddSelectedLot(selectedRadio, quantityText) ==
    /\ selectLotModal.shown
    /\ selectedRadio \in Radios
    /\ AddSelectedLotToCount("modalAdd", None, None, selectedRadio, quantityText)
    /\ UNCHANGED <<server, currentProductDetails, productDetailsCard,
                   table, selectLotModal, editProductModal, limit>>

\* addQuickLotModalBtn click, with the radio button checked at that time
AddQuickLot(selectedRadio) ==
    /\ selectLotModal.shown
    /\ selectedRadio \in Radios
    /\ AddSelectedLotToCount("modalAdd", None, Some(1), selectedRadio, <<>>)
    /\ UNCHANGED <<server, currentProductDetails, productDetailsCard,
                   table, selectLotModal, editProductModal, limit>>

\* the operator dismisses the lot selection dialog
CloseSelectLotModal ==
    /\ selectLotModal.shown
    /\ selectLotModal' = HiddenSelectLotModal
    /\ flash' = "none"
    /\ UNCHANGED <<server, currentProductDetails, productDetailsCard,
                   table, editProductModal, tasks, ops, limit>>

\* Editar click on table row r: openEditModal(product)
OpenEditModal(r) ==
    /\ PageUsable
    /\ r \in 1..Len(table)
    /\ table[r].kind = "item"
    /\ editProductModal' = EditFormFor(table[r].product)
    /\ flash' = "none"
    /\ UNCHANGED <<server, currentProductDetails, productDetailsCard,
                   table, selectLotModal, tasks, ops, limit>>

\* saveEditedProductBtn click, after the operator typed into the form
SaveEditedProduct(base, mult, lote, validade) ==
    /\ editProductModal.shown
    /\ RequestsLeft
    /\ LET form == TypeAll(editProductModal, base, mult, lote, validade)
       IN tasks' = Append(tasks, Sent("save", "/update_counted_product",
                                      EditedProduct(form), form))
    /\ ops' = ops + 1
    /\ flash' = "none"
    /\ UNCHANGED <<server, currentProductDetails, productDetailsCard,
                   table, selectLotModal, editProductModal, limit>>

\* the operator dismisses the edit dialog
CloseEditModal ==
    /\ editProductModal.shown
    /\ editProductModal' = HiddenEditProductModal
    /\ flash' = "none"
    /\ UNCHANGED <<server, currentProductDetails, productDetailsCard,
                   table, selectLotModal, tasks, ops, limit>>

\* mutant: the request carries the number of the row, not the entry's id
DeleteProductByRowNumber(r) ==
    /\ PageUsable
    /\ r \in 1..Len(table)
    /\ table[r].kind = "item"
    /\ RequestsLeft
    /\ tasks' = Append(tasks, Sent("delete", "/delete_counted_product",
                                   [id |-> r], <<>>))
    /\ ops' = ops + 1
    /\ flash' = "none"
    /\ UNCHANGED <<server, currentProductDetails, productDetailsCard,
                   table, selectLotModal, editProductModal, limit>>
\* Remover click on table row r, confirmed: deleteProduct(product.id)
DeleteProduct(r) ==
    /\ PageUsable
    /\ r \in 1..Len(table)
    /\ table[r].kind = "item"
    /\ RequestsLeft
    /\ tasks' = Append(tasks, Sent("delete", "/delete_counted_product",
                                   [id |-> table[r].product.id], <<>>))
    /\ ops' = ops + 1
    /\ flash' = "none"
    /\ UNCHANGED <<server, currentProductDetails, productDetailsCard,
                   table, selectLotModal, editProductModal, limit>>

\* clearCountedProductsBtn click, confirmed
ClearCountedProductsClick ==
    /\ PageUsable
    /\ RequestsLeft
    /\ tasks' = Append(tasks, Sent("clear", "/clear_counted_products", <<>>, <<>>))
    /\ ops' = ops + 1
    /\ flash' = "none"
    /\ UNCHANGED <<server, currentProductDetails, productDetailsCard,
                   table, selectLotModal, editProductModal, limit>>

\* ------------------------------------------------- Catalog and Ledger
\* the service answering a request
Route(route, req, catalog) ==
    CASE route = "/search_product" -> SearchProduct(req, catalog)
      [] route = "/add_to_selected_lot" -> AddToSelectedLot(req)
      [] route = "/add_to_last_counted_lot" -> AddToLastCountedLot(req)
      [] route = "/update_counted_product" -> UpdateCountedProduct(req)
      [] route = "/delete_counted_product" -> DeleteCountedProduct(req)
      [] route = "/clear_counted_products" -> ClearCountedProducts(req)
      [] route = "/get_counted_products" -> GetCountedProducts(req)

\* the server handles request i and answers it; a lookup reads the lots the
\* Catalog holds at that time
Serve(i) ==
    /\ i \in 1..Len(tasks)
    /\ ~IsSome(tasks[i].resp)
    /\ \E catalog \in IF tasks[i].route = "/search_product" THEN Catalogs
                      ELSE {CHOOSE c \in Catalogs : TRUE} :
         LET out == Route(tasks[i].route, tasks[i].req, catalog)
         IN /\ ledger' = out.ledger
            /\ nextId' = out.nextId
            /\ recency' = out.recency
            /\ tasks' = [tasks EXCEPT ![i].resp = Some(out.resp)]
    /\ flash' = "none"
    /\ UNCHANGED <<currentProductDetails, productDetailsCard, table,
                   selectLotModal, editProductModal, ops, limit>>

\* request i does not reach the server: fetch rejects
NetworkError(i) ==
    /\ i \in 1..Len(tasks)
    /\ ~IsSome(tasks[i].resp)
    /\ tasks' = [tasks EXCEPT ![i].resp = Some(NetworkFailure)]
    /\ flash' = "none"
    /\ UNCHANGED <<server, currentProductDetails, productDetailsCard,
                   table, selectLotModal, editProductModal, ops, limit>>

\* the server handles request i but its answer does not reach the page:
\* fetch (or response.json()) rejects after the server has acted
ResponseLost(i) ==
    /\ i \in 1..Len(tasks)
    /\ ~IsSome(tasks[i].resp)
    /\ \E catalog \in IF tasks[i].route = "/search_product" THEN Catalogs
                      ELSE {CHOOSE c \in Catalogs : TRUE} :
         LET out == Route(tasks[i].route, tasks[i].req, catalog)
         IN /\ ledger' = out.ledger
            /\ nextId' = out.nextId
            /\ recency' = out.recency
    /\ tasks' = [tasks EXCEPT ![i].resp = Some(NetworkFailure)]
    /\ flash' = "none"
    /\ UNCHANGED <<currentProductDetails, productDetailsCard, table,
                   selectLotModal, editProductModal, ops, limit>>

\* ------------------------------------------------------- continuations
Answered(i, handlers) ==
    /\ i \in 1..Len(tasks)
    /\ tasks[i].handler \in handlers
    /\ IsSome(tasks[i].resp)
Succeeded(data) == ~data.error /\ data.success

\* mutant: a failed lookup leaves the product of the lookup before in place
FetchProductDetailsResumeKeepingProduct(i) ==
    /\ Answered(i, {"search"})
    /\ LET data == Get(tasks[i].resp)
       IN IF Succeeded(data)
          THEN /\ currentProductDetails' = Some(data)
               /\ productDetailsCard' = TRUE
               /\ IF /\ IsSome(data.last_counted_lot)
                     /\ MatchingAvailableLot(data.lotes, Get(data.last_counted_lot))
                  THEN /\ tasks' = [tasks EXCEPT ![i] =
                              Sent("scanIncrement", "/add_to_last_counted_lot",
                                   IncrementRequest(Get(data.last_counted_lot).id), <<>>)]
                       /\ flash' = "none"
                  ELSE /\ tasks' = RemoveAt(tasks, i)
                       /\ flash' = "success"
          ELSE /\ flash' = "danger"
               /\ UNCHANGED <<productDetailsCard, currentProductDetails>>
               /\ tasks' = RemoveAt(tasks, i)
    /\ UNCHANGED <<server, table, selectLotModal, editProductModal, ops, limit>>
\* fetchProductDetails after the answer of /search_product
FetchProductDetailsResume(i) ==
    /\ Answered(i, {"search"})
    /\ LET data == Get(tasks[i].resp)
       IN IF Succeeded(data)
          THEN /\ currentProductDetails' = Some(data)
               /\ productDetailsCard' = TRUE
               /\ IF /\ IsSome(data.last_counted_lot)
                     /\ MatchingAvailableLot(data.lotes, Get(data.last_counted_lot))
                  THEN /\ tasks' = [tasks EXCEPT ![i] =
                              Sent("scanIncrement", "/add_to_last_counted_lot",
                                   IncrementRequest(Get(data.last_counted_lot).id), <<>>)]
                       /\ flash' = "none"
                  ELSE /\ tasks' = RemoveAt(tasks, i)
                       /\ flash' = "success"
          ELSE /\ flash' = "danger"
               /\ productDetailsCard' = FALSE
               /\ currentProductDetails' = None
               /\ tasks' = RemoveAt(tasks, i)
    /\ UNCHANGED <<server, table, selectLotModal, editProductModal, ops, limit>>

\* mutant: the scan leaves the product in place after its increment
AddProductToLastCountedLotResumeKeepingProduct(i) ==
    /\ Answered(i, {"scanIncrement", "defaultIncrement"})
    /\ LET data == Get(tasks[i].resp)
       IN IF Succeeded(data)
          THEN /\ table' = updateCountedProductsTable(table, data.counted_products)
               /\ flash' = "success"
          ELSE /\ flash' = "danger"
               /\ UNCHANGED table
    /\ tasks' = RemoveAt(tasks, i)
    /\ UNCHANGED <<server, productDetailsCard, currentProductDetails,
                   selectLotModal, editProductModal, ops, limit>>
\* addProductToLastCountedLot after the answer, then its caller's clean-up
AddProductToLastCountedLotResume(i) ==
    /\ Answered(i, {"scanIncrement", "defaultIncrement"})
    /\ LET data == Get(tasks[i].resp)
       IN IF Succeeded(data)
          THEN /\ table' = updateCountedProductsTable(table, data.counted_products)
               /\ flash' = "success"
          ELSE /\ flash' = "danger"
               /\ UNCHANGED table
    /\ productDetailsCard' = FALSE
    /\ currentProductDetails' = None
    /\ tasks' = RemoveAt(tasks, i)
    /\ UNCHANGED <<server, selectLotModal, editProductModal, ops, limit>>

\* mutant: a counted lot clears the current product and leaves its card up
AddSelectedLotToCountResumeLeavingCard(i) ==
    /\ Answered(i, {"defaultAdd", "modalAdd"})
    /\ LET data == Get(tasks[i].resp)
       IN /\ IF Succeeded(data)
             THEN /\ selectLotModal' = HiddenSelectLotModal
                  /\ table' = updateCountedProductsTable(table, data.counted_products)
                  /\ flash' = "success"
             ELSE /\ flash' = "danger"
                  /\ UNCHANGED <<selectLotModal, table>>
          /\ IF Succeeded(data) \/ tasks[i].handler = "defaultAdd"
             THEN currentProductDetails' = None
             ELSE UNCHANGED currentProductDetails
    /\ tasks' = RemoveAt(tasks, i)
    /\ UNCHANGED <<server, productDetailsCard, editProductModal, ops, limit>>
\* addSelectedLotToCount after the answer; the default lot button then
\* clears the current product whatever the answer was
AddSelectedLotToCountResume(i) ==
    /\ Answered(i, {"defaultAdd", "modalAdd"})
    /\ LET data == Get(tasks[i].resp)
       IN /\ IF Succeeded(data)
             THEN /\ selectLotModal' = HiddenSelectLotModal
                  /\ table' = updateCountedProductsTable(table, data.counted_products)
                  /\ flash' = "success"
             ELSE /\ flash' = "danger"
                  /\ UNCHANGED <<selectLotModal, table>>
          /\ IF Succeeded(data) \/ tasks[i].handler = "defaultAdd"
             THEN /\ productDetailsCard' = FALSE
                  /\ currentProductDetails' = None
             ELSE UNCHANGED <<productDetailsCard, currentProductDetails>>
    /\ tasks' = RemoveAt(tasks, i)
    /\ UNCHANGED <<server, editProductModal, ops, limit>>

\* mutant: a refused save is treated like a successful one
SaveEditedProductResumeIgnoringFailure(i) ==
    /\ Answered(i, {"save"})
    /\ editProductModal' = HiddenEditProductModal
    /\ tasks' = [tasks EXCEPT ![i] = Sent("load", "/get_counted_products", <<>>, <<>>)]
    /\ flash' = "success"
    /\ UNCHANGED <<server, currentProductDetails, productDetailsCard,
                   table, selectLotModal, ops, limit>>
\* the save handler after the answer: on success it starts loadCountedProducts
SaveEditedProductResume(i) ==
    /\ Answered(i, {"save"})
    /\ LET data == Get(tasks[i].resp)
       IN IF Succeeded(data)
          THEN /\ editProductModal' = HiddenEditProductModal
               /\ tasks' = [tasks EXCEPT ![i] =
                      Sent("load", "/get_counted_products", <<>>, <<>>)]
               /\ flash' = "success"
          ELSE /\ flash' = "danger"
               /\ tasks' = RemoveAt(tasks, i)
               /\ UNCHANGED editProductModal
    /\ UNCHANGED <<server, currentProductDetails, productDetailsCard,
                   table, selectLotModal, ops, limit>>

\* mutant: a refused delete is treated like a successful one
DeleteProductResumeReloading(i) ==
    /\ Answered(i, {"delete"})
    /\ tasks' = [tasks EXCEPT ![i] = Sent("load", "/get_counted_products", <<>>, <<>>)]
    /\ flash' = "info"
    /\ UNCHANGED <<server, currentProductDetails, productDetailsCard,
                   table, selectLotModal, editProductModal, ops, limit>>
\* deleteProduct after the answer: on success it starts loadCountedProducts
DeleteProductResume(i) ==
    /\ Answered(i, {"delete"})
    /\ LET data == Get(tasks[i].resp)
       IN IF Succeeded(data)
          THEN /\ tasks' = [tasks EXCEPT ![i] =
                      Sent("load", "/get_counted_products", <<>>, <<>>)]
               /\ flash' = "info"
          ELSE /\ flash' = "danger"
               /\ tasks' = RemoveAt(tasks, i)
    /\ UNCHANGED <<server, currentProductDetails, productDetailsCard,
                   table, selectLotModal, editProductModal, ops, limit>>

\* mutant: a successful clear leaves the current product displayed
ClearCountedProductsResumeKeepingProduct(i) ==
    /\ Answered(i, {"clear"})
    /\ LET data == Get(tasks[i].resp)
       IN IF Succeeded(data)
          THEN /\ table' = updateCountedProductsTable(table, <<>>)
               /\ flash' = "info"
          ELSE /\ flash' = "danger"
               /\ UNCHANGED table
    /\ tasks' = RemoveAt(tasks, i)
    /\ UNCHANGED <<server, productDetailsCard, currentProductDetails,
                   selectLotModal, editProductModal, ops, limit>>
\* the clear handler after the answer
ClearCountedProductsResume(i) ==
    /\ Answered(i, {"clear"})
    /\ LET data == Get(tasks[i].resp)
       IN IF Succeeded(data)
          THEN /\ table' = updateCountedProductsTable(table, <<>>)
               /\ flash' = "info"
               /\ productDetailsCard' = FALSE
               /\ currentProductDetails' = None
          ELSE /\ flash' = "danger"
               /\ UNCHANGED <<table, productDetailsCard, currentProductDetails>>
    /\ tasks' = RemoveAt(tasks, i)
    /\ UNCHANGED <<server, selectLotModal, editProductModal, ops, limit>>

\* loadCountedProducts after the answer
LoadCountedProductsResume(i) ==
    /\ Answered(i, {"load"})
    /\ LET data == Get(tasks[i].resp)
       IN IF ~data.error
          THEN table' = updateCountedProductsTable(table, data.counted_products)
          ELSE UNCHANGED table
    /\ tasks' = RemoveAt(tasks, i)
    /\ flash' = "none"
    /\ UNCHANGED <<server, currentProductDetails, productDetailsCard,
                   selectLotModal, editProductModal, ops, limit>>

\* ---------------------------------------------------- edit form inputs
\* texts an operator may leave in a quantity input of the edit form
CalcTexts ==
    {<<>>, <<"a">>, <<"0">>, <<"1">>, <<"3">>, <<"-", "2">>, <<"1", "2">>,
     <<" ", "4">>, <<"6", "x">>}
QuantityFields == {"quantidade_base", "multiplicador_usado"}

\* input event of editQuantityBaseInput / editMultiplierUsedInput
EditQuantityInput(field, text) ==
    /\ limit.page = "script.js"
    /\ editProductModal.shown
    /\ editProductModal' = TypeInto(editProductModal, field, text)
    /\ flash' = "none"
    /\ UNCHANGED <<server, currentProductDetails, productDetailsCard, table,
                   selectLotModal, tasks, ops, limit>>

\* oninput of editQuantidadeBase / editMultiplicadorUsado in the flat-table
\* variant of the page
EditQuantidadeInput(field, text) ==
    /\ limit.page = "part_000"
    /\ editProductModal.shown
    /\ LET typed == [editProductModal EXCEPT ![field] = text]
       IN editProductModal' =
              [typed EXCEPT !.quantidade_total =
                  IntStr(updateEditQuantidadeTotal(typed.quantidade_base,
                                                   typed.multiplicador_usado))]
    /\ flash' = "none"
    /\ UNCHANGED <<server, currentProductDetails, productDetailsCard, table,
                   selectLotModal, tasks, ops, limit>>

\* ------------------------------------------------------- specification
\* Ledgers an earlier session may have left in the store: nothing, one scan
\* of P1 added to its single lot A, and the same followed by one of P2.
EntryP1A == [id |-> 1, codigo_produto |-> "P1", codigo_barras |-> "789123",
             nome_produto |-> "Produto 1", lote |-> "L1", data_fabricacao |-> "D1",
             data_validade |-> "V1", quantidade_base |-> 1,
             multiplicador_usado |-> 3, quantidade_total |-> 3]
EntryP2A == [id |-> 2, codigo_produto |-> "P2", codigo_barras |-> "789456",
             nome_produto |-> "Produto 2", lote |-> "L1", data_fabricacao |-> "D1",
             data_validade |-> "V1", quantidade_base |-> 1,
             multiplicador_usado |-> 1, quantidade_total |-> 1]
StoredLedgers == {<<EntryP1A>>, <<EntryP1A, EntryP2A>>}

\* the page after DOMContentLoaded: loadCountedProducts() is under way
InitPage(stored, bounds) ==
    /\ ledger \in stored
    /\ nextId = Len(ledger) + 1
    /\ recency = [i \in 1..Len(ledger) |-> ledger[i].id]
    /\ currentProductDetails = None
    /\ productDetailsCard = FALSE
    /\ table = <<>>
    /\ selectLotModal = HiddenSelectLotModal
    /\ editProductModal = HiddenEditProductModal
    /\ tasks = <<Sent("load", "/get_counted_products", <<>>, <<>>)>>
    /\ flash = "none"
    /\ ops = 0
    /\ limit = bounds

\* a fresh store, one request at a time
Init == InitPage({<<>>}, [ops |-> MaxOps, inflight |-> 1, page |-> "script.js"])
\* a store with entries, one request at a time
InitStored == InitPage(StoredLedgers, [ops |-> MaxOpsStored, inflight |-> 1, page |-> "script.js"])
\* a fresh store, overlapping requests
InitAsync ==
    InitPage({<<>>}, [ops |-> MaxOpsAsync, inflight |-> MaxInFlight,
                      page |-> "script.js"])

\* a fresh store, one request at a time, answers may be lost
InitLossy ==
    InitPage({<<>>}, [ops |-> MaxOpsLossy, inflight |-> 1, page |-> "script.js"])

\* a store left by an earlier session: P1's lot L1/V1 counted twice and
\* edited to multiplier 6, then P1's lot L1/V2 counted once and edited to
\* multiplier 2
EntryP1AEdited ==
    [EntryP1A EXCEPT !.quantidade_base = 2, !.multiplicador_usado = 6,
                     !.quantidade_total = 12]
EntryP1B ==
    [EntryP1A EXCEPT !.id = 2, !.data_validade = "V2", !.multiplicador_usado = 2,
                     !.quantidade_total = 2]
RecountLedgers == {<<EntryP1AEdited, EntryP1B>>}
InitRecount ==
    InitPage(RecountLedgers, [ops |-> MaxOpsRecount, inflight |-> 1, page |-> "script.js"])

\* either variant of the page with the edit dialog open on a stored entry
InitCalc ==
    /\ ledger \in StoredLedgers
    /\ nextId = Len(ledger) + 1
    /\ recency = [i \in 1..Len(ledger) |-> ledger[i].id]
    /\ currentProductDetails = None
    /\ productDetailsCard = FALSE
    /\ table = updateCountedProductsTable(<<>>, ledger)
    /\ selectLotModal = HiddenSelectLotModal
    /\ \E k \in 1..Len(ledger) : editProductModal = EditFormFor(ledger[k])
    /\ tasks = <<>>
    /\ flash = "none"
    /\ ops = 0
    /\ \E page \in {"script.js", "part_000"} :
           limit = [ops |-> 0, inflight |-> 0, page |-> page]

NextCalc ==
    \/ \E field \in QuantityFields, text \in CalcTexts : EditQuantityInput(field, text)
    \/ \E field \in QuantityFields, text \in CalcTexts : EditQuantidadeInput(field, text)

Next ==
    \/ \E barcode \in Barcodes : SubmitSearch(barcode)
    \/ AddDefaultLot
    \/ SelectDifferentLot
    \/ AddManualLot
    \/ \E selectedRadio \in Radios, text \in QuantityTexts :
           AddSelectedLot(selectedRadio, text)
    \/ \E selectedRadio \in Radios : AddQuickLot(selectedRadio)
    \/ CloseSelectLotModal
    \/ \E r \in 1..Len(table) : OpenEditModal(r)
    \/ \E e \in Edits : SaveEditedProduct(e[1], e[2], e[3], e[4])
    \/ CloseEditModal
    \/ \E r \in 1..Len(table) : DeleteProduct(r)
    \/ ClearCountedProductsClick
    \/ \E i \in 1..Len(tasks) : Serve(i)
    \/ \E i \in 1..Len(tasks) : NetworkError(i)
    \/ \E i \in 1..Len(tasks) : FetchProductDetailsResume(i)
    \/ \E i \in 1..Len(tasks) : AddProductToLastCountedLotResume(i)
    \/ \E i \in 1..Len(tasks) : AddSelectedLotToCountResume(i)
    \/ \E i \in 1..Len(tasks) : SaveEditedProductResume(i)
    \/ \E i \in 1..Len(tasks) : DeleteProductResume(i)
    \/ \E i \in 1..Len(tasks) : ClearCountedProductsResume(i)
    \/ \E i \in 1..Len(tasks) : LoadCountedProductsResume(i)

Spec == Init /\ [][Next]_vars
SpecAsync == InitAsync /\ [][Next]_vars
SpecStored == InitStored /\ [][Next]_vars
NextLossy ==
    \/ Next
    \/ \E i \in 1..Len(tasks) : ResponseLost(i)
SpecLossy == InitLossy /\ [][NextLossy]_vars
SpecRecount == InitRecount /\ [][Next]_vars
SpecCalc == InitCalc /\ [][NextCalc]_vars

\* every request is answered or fails: fetch settles
Deliver == \E i \in 1..Len(tasks) : Serve(i) \/ NetworkError(i)
\* a handler whose fetch has settled runs on from its await
Continue ==
    \E i \in 1..Len(tasks) :
        \/ FetchProductDetailsResume(i)
        \/ AddProductToLastCountedLotResume(i)
        \/ AddSelectedLotToCountResume(i)
        \/ SaveEditedProductResume(i)
        \/ DeleteProductResume(i)
        \/ ClearCountedProductsResume(i)
        \/ LoadCountedProductsResume(i)
\* the page with overlapping requests, every fetch settling and every
\* settled handler running on
SpecFair == InitAsync /\ [][Next]_vars /\ WF_vars(Deliver) /\ WF_vars(Continue)

\* ------------------------------------------------ steps, for the properties
\* this step is the server answering request i
Served(i) ==
    /\ i \in 1..Len(tasks)
    /\ Len(tasks') = Len(tasks)
    /\ ~IsSome(tasks[i].resp)
    /\ IsSome(tasks'[i].resp)
    /\ ~Get(tasks'[i].resp).error
\* this step is the handler of request i taking up its answer
Resumed(i) ==
    /\ i \in 1..Len(tasks)
    /\ IsSome(tasks[i].resp)
    /\ \/ tasks' = RemoveAt(tasks, i)
       \/ Len(tasks') = Len(tasks) /\ tasks'[i] # tasks[i]
\* this step starts a request: the new last task
Started == Len(tasks') = Len(tasks) + 1
EntryOf(l, id) == l[IndexOfId(l, id)]

\* ------------------------------------------------------------------ C1
\* C1: no two ledger entries share the same (productCode, lotCode,
\* manufactureDate, expiryDate) tuple, in any state reachable by scans, lot
\* commits, manual edits, deletes and clear-all.
C1_NoDuplicateTuple ==
    \A i, j \in 1..Len(ledger) : i # j => ~SameTuple(ledger[i], ledger[j])

\* ------------------------------------------------------------------ C2
\* C2: every ledger entry has totalQuantity = baseQuantity * multiplierUsed,
\* after creation, increment, lot commit onto an existing entry and manual
\* edit alike.
C2_TotalIsProduct ==
    \A i \in 1..Len(ledger) :
        ledger[i].quantidade_total
            = ledger[i].quantidade_base * ledger[i].multiplicador_usado
\* an entry counted twice at the suggested multiplier and one edited to 3 x 6
C2_Witness ==
    /\ \E i \in 1..Len(ledger) :
           ledger[i].quantidade_base = 3 /\ ledger[i].multiplicador_usado = 6
    /\ \E i \in 1..Len(ledger) :
           ledger[i].quantidade_base = 2 /\ ledger[i].multiplicador_usado = 3

\* ------------------------------------------------------------------ C3
\* what a step that takes up the answer of a lookup has in hand
IsScanAnswer(i) ==
    /\ Resumed(i)
    /\ tasks[i].handler = "search"
    /\ Succeeded(Get(tasks[i].resp))
LotOffered(data, e) == \E k \in 1..Len(data.lotes) : SameLot(data.lotes[k], e)
LastCountedOffered(data) ==
    /\ IsSome(data.last_counted_lot)
    /\ LotOffered(data, Get(data.last_counted_lot))
IsIncrementOf(t, id) ==
    /\ t.route = "/add_to_last_counted_lot"
    /\ t.req = [id |-> id, quantity_to_add |-> 1]
    /\ ~IsSome(t.resp)

SingleLotNeverCounted(data) ==
    /\ Len(data.lotes) = 1
    /\ ~IsSome(data.last_counted_lot)
\* the request this step starts
NewTask == tasks'[Len(tasks')]
IsAddOfLot(req, product, lot, quantity) ==
    /\ req.codigo_produto = product.codigo_produto
    /\ req.codigo_barras = product.codigo_barras
    /\ SameLot(req, lot)
    /\ req.quantidade_base = quantity
    /\ req.multiplicador_sugerido = product.multiplicador_sugerido

C5_NoChangeWithoutLotSelection ==
    [][/\ \A i \in 1..Len(tasks) :
            (/\ IsScanAnswer(i)
             /\ Len(Get(tasks[i].resp).lotes) >= 2
             /\ ~LastCountedOffered(Get(tasks[i].resp)))
            => /\ tasks' = RemoveAt(tasks, i)
               /\ ledger' = ledger
       /\ (/\ Started
           /\ NewTask.route \in {"/add_to_selected_lot", "/add_to_last_counted_lot"}
           /\ IsSome(currentProductDetails)
           /\ Len(Get(currentProductDetails).lotes) >= 2
           /\ ~LastCountedOffered(Get(currentProductDetails)))
          => /\ NewTask.handler = "modalAdd"
             /\ selectLotModal.shown]_vars

\* ------------------------------------------------------------------ C6
ItemRows == {r \in 1..Len(table) : table[r].kind = "item"}
GroupRows == {r \in 1..Len(table) : table[r].kind = "group"}
\* C6: in the grouped table every product has a single header, the lot rows
\* of a product are contiguous below it, and the lot rows appear in the
\* order the entries were created (ascending id).
C6_GroupedUnderSingleHeader ==
    /\ \A g, h \in GroupRows :
           table[g].codigo_produto = table[h].codigo_produto => g = h
    /\ \A r, q \in ItemRows :
           (r < q /\ table[r].product.codigo_produto = table[q].product.codigo_produto)
           => \A m \in r..q :
                  /\ table[m].kind = "item"
                  /\ table[m].product.codigo_produto = table[r].product.codigo_produto
    /\ \A r, q \in ItemRows : r < q => table[r].product.id < table[q].product.id

\* ------------------------------------------------------------------ C7
\* the rows of the first n entries of a list, from the list alone
RowsOf(products) ==
    LET rows[n \in 0..Len(products)] ==
            IF n = 0 THEN <<>>
            ELSE rows[n - 1]
                 \o (IF n = 1 \/ products[n].codigo_produto # products[n - 1].codigo_produto
                     THEN <<GroupRow(products[n])>> ELSE <<>>)
                 \o <<ItemRow(products[n], n)>>
    IN IF products = <<>> THEN <<EmptyRow>> ELSE rows[Len(products)]
\* the list a handler renders when it takes up answer i
RendersList(i) ==
    /\ Resumed(i)
    /\ LET data == Get(tasks[i].resp)
       IN \/ tasks[i].handler = "load" /\ ~data.error
          \/ /\ tasks[i].handler \in {"scanIncrement", "defaultIncrement",
                                      "defaultAdd", "modalAdd"}
             /\ Succeeded(data)
\* C7: the grouped table is a function of the list it is rendered from and
\* of nothing else: whatever the table showed before, after a rendering it
\* is exactly the rows of that list, and rendering the same list over it
\* again leaves it as it is.
C7_TableIsFunctionOfList ==
    [][\A i \in 1..Len(tasks) : RendersList(i) =>
         LET products == Get(tasks[i].resp).counted_products
         IN /\ table' = RowsOf(products)
            /\ updateCountedProductsTable(table', products) = table']_vars
\* a list is about to be rendered over a table that shows lot rows of another
\* list
C7_Witness ==
    \E i \in 1..Len(tasks) :
        /\ IsSome(tasks[i].resp)
        /\ tasks[i].handler \in {"load", "modalAdd", "scanIncrement"}
        /\ ~Get(tasks[i].resp).error
        /\ (tasks[i].handler = "load" \/ Succeeded(Get(tasks[i].resp)))
        /\ ItemRows # {}
        /\ Get(tasks[i].resp).counted_products # <<>>
        /\ table # RowsOf(Get(tasks[i].resp).counted_products)

\* ------------------------------------------------------------------ C8
\* C8: a delete request for an id that is not in the ledger is answered with
\* a failure and leaves the ledger exactly as it was; the page then shows the
\* failure, keeps its table and starts no reload.
C8_DeleteAbsentIsNotFound ==
    [][/\ \A i \in 1..Len(tasks) :
            (/\ Served(i)
             /\ tasks[i].route = "/delete_counted_product"
             /\ tasks[i].req.id \notin Ids(ledger))
            => /\ ledger' = ledger
               /\ ~Succeeded(Get(tasks'[i].resp))
       /\ \A i \in 1..Len(tasks) :
            (/\ Resumed(i)
             /\ tasks[i].handler = "delete"
             /\ ~Succeeded(Get(tasks[i].resp)))
            => /\ flash' = "danger"
               /\ tasks' = RemoveAt(tasks, i)
               /\ table' = table
               /\ ledger' = ledger]_vars
\* a delete of an id that is no longer in the ledger has been answered
C8_Witness ==
    \E i \in 1..Len(tasks) :
        /\ tasks[i].handler = "delete"
        /\ tasks[i].resp = Some(Failure)
        /\ tasks[i].req.id \notin Ids(ledger)

\* ------------------------------------------------------------------ C9
\* C9: when an edit is saved with base b >= 0 and multiplier m >= 1 typed
\* into the form of an existing entry and the request succeeds, that entry
\* has base quantity b, multiplier m and total b * m, whatever it held
\* before.
C9_EditSetsAbsolute ==
    [][\A i \in 1..Len(tasks) :
         (/\ Served(i)
          /\ tasks[i].handler = "save"
          /\ Succeeded(Get(tasks'[i].resp)))
         => LET form == tasks[i].local
                id == parseInt(form.id)
                b == parseInt(form.quantidade_base)
                m == parseInt(form.multiplicador_usado)
            IN (~b.nan /\ b.n >= 0 /\ ~m.nan /\ m.n >= 1)
               => /\ ~id.nan
                  /\ id.n \in Ids(ledger')
                  /\ EntryOf(ledger', id.n).quantidade_base = b.n
                  /\ EntryOf(ledger', id.n).multiplicador_usado = m.n
                  /\ EntryOf(ledger', id.n).quantidade_total = b.n * m.n]_vars
\* the edit 3 x 6 of an entry that held 1 x 3 has been answered: total 18
C9_Witness ==
    \E i \in 1..Len(tasks) :
        /\ tasks[i].handler = "save"
        /\ IsSome(tasks[i].resp)
        /\ Succeeded(Get(tasks[i].resp))
        /\ tasks[i].local.quantidade_base = IntStr(3)
        /\ tasks[i].local.multiplicador_usado = IntStr(6)
        /\ \E k \in 1..Len(ledger) :
             /\ IntStr(ledger[k].id) = tasks[i].local.id
             /\ ledger[k].quantidade_total = 18

\* ----------------------------------------------------------------- C10
\* the total the calculator is specified to give for the texts of the two
\* quantity inputs: base * multiplier, a non-numeric or missing base
\* counting as 0 and a non-numeric or missing multiplier as 1
SpecifiedTotal(baseText, multText) ==
    LET b == parseInt(baseText)
        m == parseInt(multText)
    IN (IF b.nan THEN 0 ELSE b.n) * (IF m.nan THEN 1 ELSE m.n)
\* C10: the total the edit form shows is base * multiplier for all integer
\* base and multiplier, multiplier 0 and base 0 included; a non-numeric or
\* missing base gives 0 and a non-numeric or missing multiplier gives
\* base * 1.
C10_CalculatorTotal ==
    editProductModal.shown =>
        editProductModal.quantidade_total
            = IntStr(SpecifiedTotal(editProductModal.quantidade_base,
                                    editProductModal.multiplicador_usado))

\* ----------------------------------------------------------------- C11
\* in this step request i stops waiting: the server answered it or fetch
\* rejected
Settled(i) ==
    /\ i \in 1..Len(tasks)
    /\ Len(tasks') = Len(tasks)
    /\ ~IsSome(tasks[i].resp)
    /\ IsSome(tasks'[i].resp)
IsWrite(t) == t.route \in {"/add_to_selected_lot", "/update_counted_product"}
Consistent(e) == e.quantidade_total = e.quantidade_base * e.multiplicador_usado
\* l2 is l1 with the add request applied in full
AddApplied(l1, l2, req) ==
    IF \E k \in 1..Len(l1) : SameTuple(l1[k], req)
    THEN /\ Len(l2) = Len(l1)
         /\ \A k \in 1..Len(l1) :
              IF SameTuple(l1[k], req)
              THEN /\ l2[k].quantidade_base = l1[k].quantidade_base + req.quantidade_base
                   /\ l2[k].multiplicador_usado = l1[k].multiplicador_usado
                   /\ SameTuple(l2[k], l1[k]) /\ l2[k].id = l1[k].id
                   /\ Consistent(l2[k])
              ELSE l2[k] = l1[k]
    ELSE /\ Len(l2) = Len(l1) + 1
         /\ SubSeq(l2, 1, Len(l1)) = l1
         /\ SameTuple(l2[Len(l2)], req)
         /\ l2[Len(l2)].quantidade_base = req.quantidade_base
         /\ Consistent(l2[Len(l2)])
\* l2 is l1 with the edit request applied in full: lot fields and
\* quantities together
EditApplied(l1, l2, req) ==
    /\ ~parseInt(req.id).nan
    /\ parseInt(req.id).n \in Ids(l1)
    /\ Len(l2) = Len(l1)
    /\ \A k \in 1..Len(l1) :
         IF l1[k].id = parseInt(req.id).n
         THEN /\ l2[k].id = l1[k].id
              /\ l2[k].codigo_produto = l1[k].codigo_produto
              /\ SameLot(l2[k], req)
              /\ l2[k].quantidade_base = ClampBase(req.quantidade_base)
              /\ l2[k].multiplicador_usado = ClampMultiplier(req.multiplicador_usado)
              /\ Consistent(l2[k])
         ELSE l2[k] = l1[k]
Applied(l1, l2, t) ==
    IF t.route = "/add_to_selected_lot" THEN AddApplied(l1, l2, t.req)
    ELSE EditApplied(l1, l2, t.req)

\* C11 as the specification states it: an add or an edit that fails, the
\* server reporting failure or the request erroring, leaves the ledger as it
\* was before; one that succeeds leaves the affected entry in full, with
\* total = base * multiplier.
C11_FailureLeavesLedger ==
    [][\A i \in 1..Len(tasks) : (Settled(i) /\ IsWrite(tasks[i])) =>
         IF Succeeded(Get(tasks'[i].resp))
         THEN Applied(ledger, ledger', tasks[i])
         ELSE ledger' = ledger]_vars

\* C11, amended: an add or an edit is applied in full or not at all.  When
\* the server reports failure, or the request does not reach the server,
\* the ledger is as it was before; when the request errors after the server
\* has acted, the ledger holds the operation in full although the page sees
\* an error; when it succeeds the affected entry is there in full.  In
\* every case each entry has total = base * multiplier.
C11_AppliedInFullOrNotAtAll ==
    [][\A i \in 1..Len(tasks) : (Settled(i) /\ IsWrite(tasks[i])) =>
         LET data == Get(tasks'[i].resp)
         IN /\ Succeeded(data) => Applied(ledger, ledger', tasks[i])
            /\ (~data.error /\ ~data.success) => ledger' = ledger
            /\ data.error =>
                 (ledger' = ledger \/ Applied(ledger, ledger', tasks[i]))
            /\ \A k \in 1..Len(ledger') : Consistent(ledger'[k])]_vars
\* the answer to an edit to base 5 was lost after the server had applied it
C11_Witness ==
    \E i \in 1..Len(tasks) :
        /\ tasks[i].route = "/update_counted_product"
        /\ tasks[i].resp = Some(NetworkFailure)
        /\ tasks[i].req.quantidade_base = IntStr(5)
        /\ \E k \in 1..Len(ledger) :
             /\ IntStr(ledger[k].id) = tasks[i].req.id
             /\ ledger[k].quantidade_base = 5
             /\ ledger[k].quantidade_total = 15

\* ----------------------------------------------------------------- C12
InvalidQuantity(text) == parseInt(text).nan \/ parseInt(text).n <= 0
\* C12: when the operator confirms the lot selection dialog with a quantity
\* that is not a number or is <= 0, a warning is shown, no request is
\* started, the ledger is unchanged, and the current product and the dialog
\* stay as they are.
C12_InvalidQuantityRejected ==
    [][\A selectedRadio \in Radios, text \in QuantityTexts :
         (AddSelectedLot(selectedRadio, text) /\ InvalidQuantity(text))
         => /\ flash' = "warning"
            /\ tasks' = tasks
            /\ ledger' = ledger
            /\ currentProductDetails' = currentProductDetails
            /\ productDetailsCard' = productDetailsCard
            /\ selectLotModal' = selectLotModal
            /\ selectLotModal'.shown]_vars
\* the dialog, listing lots of the current product, has just refused a
\* quantity
C12_Witness ==
    /\ flash = "warning"
    /\ selectLotModal.shown
    /\ Len(selectLotModal.rows) >= 1
    /\ IsSome(currentProductDetails)
    /\ tasks = <<>>

\* ----------------------------------------------------------------- C13
IsCount(t) == t.route \in {"/add_to_selected_lot", "/add_to_last_counted_lot"}
\* C13: a lookup leaves the ledger as it is; when its barcode is not
\* resolved or its request errors the current product is cleared and the
\* card hidden; while there is no current product no add or increment
\* request is started, and only the answer of a successful lookup sets a
\* current product again.
C13_FailedScanClearsProduct ==
    [][/\ \A i \in 1..Len(tasks) :
            (Settled(i) /\ tasks[i].route = "/search_product") => ledger' = ledger
       /\ \A i \in 1..Len(tasks) :
            (/\ Resumed(i)
             /\ tasks[i].handler = "search"
             /\ ~Succeeded(Get(tasks[i].resp)))
            => /\ currentProductDetails' = None
               /\ ~productDetailsCard'
               /\ tasks' = RemoveAt(tasks, i)
               /\ ledger' = ledger
       /\ (~IsSome(currentProductDetails) /\ Started) => ~IsCount(NewTask)
       /\ (~IsSome(currentProductDetails) /\ IsSome(currentProductDetails'))
          => \E i \in 1..Len(tasks) : IsScanAnswer(i)]_vars
\* while the product of an earlier lookup is displayed, a lookup has come
\* back unresolved or in error
C13_Witness ==
    /\ IsSome(currentProductDetails)
    /\ productDetailsCard
    /\ \E i \in 1..Len(tasks) :
         /\ tasks[i].handler = "search"
         /\ IsSome(tasks[i].resp)
         /\ ~Succeeded(Get(tasks[i].resp))

\* ----------------------------------------------------------------- C14
\* the entry of P1 and its single lot L1 (suggested multiplier 3) at base b
TraceEntry(b) ==
    [EntryP1A EXCEPT !.quantidade_base = b, !.quantidade_total = b * 3]
IsTraceScan(i) ==
    /\ IsScanAnswer(i)
    /\ Get(tasks[i].resp).product = ProductP1
    /\ Get(tasks[i].resp).lotes = <<LotA>>

StaleLastCounted(data) ==
    /\ IsSome(data.last_counted_lot)
    /\ ~LotOffered(data, Get(data.last_counted_lot))
\* C15: when the product's last counted lot matches none of the lots
\* currently returned by the catalog, no increment of the last counted entry
\* is requested as a result of that scan, neither by the scan itself nor by
\* the 'add to default/last lot' action on the product it displayed.
C15_StaleLotNeverIncremented ==
    [][/\ \A i \in 1..Len(tasks) :
            (IsScanAnswer(i) /\ StaleLastCounted(Get(tasks[i].resp)))
            => tasks' = RemoveAt(tasks, i)
       /\ (/\ AddDefaultLot
           /\ Started
           /\ IsSome(currentProductDetails)
           /\ StaleLastCounted(Get(currentProductDetails)))
          => NewTask.route # "/add_to_last_counted_lot"]_vars

\* ----------------------------------------------------------------- C16
\* l2 is l1 after countIntoLot of the request: one entry of the request's
\* (product, lot, dates), if there is one, has its base raised by the
\* quantity and its total recomputed, nothing else changes; otherwise one
\* entry is appended with the quantity and the suggested multiplier
CountedIntoLot(l1, l2, req) ==
    IF \E k \in 1..Len(l1) : SameTuple(l1[k], req)
    THEN /\ Len(l2) = Len(l1)
         /\ \E k \in 1..Len(l1) :
              /\ SameTuple(l1[k], req)
              /\ l2[k] = [l1[k] EXCEPT
                     !.quantidade_base = l1[k].quantidade_base + req.quantidade_base,
                     !.quantidade_total =
                         (l1[k].quantidade_base + req.quantidade_base)
                             * l1[k].multiplicador_usado]
              /\ \A j \in 1..Len(l1) : j # k => l2[j] = l1[j]
    ELSE /\ Len(l2) = Len(l1) + 1
         /\ SubSeq(l2, 1, Len(l1)) = l1
         /\ SameTuple(l2[Len(l2)], req)
         /\ l2[Len(l2)].id \notin Ids(l1)
         /\ l2[Len(l2)].quantidade_base = req.quantidade_base
         /\ l2[Len(l2)].multiplicador_usado = req.multiplicador_sugerido
         /\ l2[Len(l2)].quantidade_total
              = req.quantidade_base * req.multiplicador_sugerido
\* C16: confirming the lot selection dialog with a quantity q >= 1 requests
\* countIntoLot of the current product, its lot at the chosen position and
\* q, with the product's suggested multiplier; when the request is
\* served, an existing entry of the same (product, lot, dates) has its base
\* raised by q with its multiplier kept and the number of entries unchanged,
\* otherwise exactly one entry is added with base q and the product's
\* suggested multiplier.
C16_CountIntoLot ==
    [][/\ \A selectedRadio \in Radios, text \in QuantityTexts :
            (AddSelectedLot(selectedRadio, text) /\ Started)
            => /\ parseInt(text).n >= 1
               /\ NewTask.route = "/add_to_selected_lot"
               /\ IsAddOfLot(NewTask.req, Get(currentProductDetails).product,
                     Get(currentProductDetails).lotes[parseInt(Get(selectedRadio)).n + 1],
                     parseInt(text).n)
       /\ \A i \in 1..Len(tasks) :
            (/\ Served(i)
             /\ tasks[i].route = "/add_to_selected_lot"
             /\ tasks[i].req.quantidade_base >= 1)
            => CountedIntoLot(ledger, ledger', tasks[i].req)]_vars
\* quantity 2 has just been counted from the dialog into the entry of lot
\* L1/V1, whose multiplier had been edited to 6: it stands at 4 x 6 = 24
\* and the other entry of the product is as it was
C16_Witness ==
    /\ ledger = <<[EntryP1AEdited EXCEPT !.quantidade_base = 4,
                                         !.quantidade_total = 24], EntryP1B>>
    /\ \E i \in 1..Len(tasks) :
         /\ tasks[i].handler = "modalAdd"
         /\ tasks[i].req.quantidade_base = 2
         /\ tasks[i].req.multiplicador_sugerido = 3
         /\ SameLot(tasks[i].req, LotA)
         /\ IsSome(tasks[i].resp)
         /\ Succeeded(Get(tasks[i].resp))

\* ----------------------------------------------------------------- C17
\* entries a and b differ at most in base and total quantity
SameButQuantity(a, b) ==
    /\ a.id = b.id
    /\ SameTuple(a, b)
    /\ a.codigo_barras = b.codigo_barras
    /\ a.nome_produto = b.nome_produto
    /\ a.multiplicador_usado = b.multiplicador_usado
\* C17: the increment requested by a scan changes only its target entry's
\* base quantity (+1) and total quantity; the target's multiplier, also one
\* that differs from the product's suggested multiplier, its id and lot
\* fields, every other entry, and the number and order of entries are
\* unchanged.
C17_AutoIncrementFrame ==
    [][\A i \in 1..Len(tasks) :
         (/\ Served(i)
          /\ tasks[i].handler = "scanIncrement"
          /\ tasks[i].req.id \in Ids(ledger))
         => /\ Len(ledger') = Len(ledger)
            /\ nextId' = nextId
            /\ \A k \in 1..Len(ledger) :
                 IF ledger[k].id = tasks[i].req.id
                 THEN /\ SameButQuantity(ledger'[k], ledger[k])
                      /\ ledger'[k].quantidade_base = ledger[k].quantidade_base + 1
                      /\ ledger'[k].quantidade_total
                           = ledger'[k].quantidade_base * ledger[k].multiplicador_usado
                 ELSE ledger'[k] = ledger[k]]_vars
\* a scan of P1 (suggested multiplier 3) has just incremented its last
\* counted entry, lot L1/V2 at multiplier 2, to 2 x 2 = 4; the product's
\* other entry is as it was
C17_Witness ==
    /\ ledger = <<EntryP1AEdited,
                  [EntryP1B EXCEPT !.quantidade_base = 2, !.quantidade_total = 4]>>
    /\ \E i \in 1..Len(tasks) :
         /\ tasks[i].handler = "scanIncrement"
         /\ tasks[i].req.id = 2
         /\ IsSome(tasks[i].resp)
         /\ Succeeded(Get(tasks[i].resp))

\* ----------------------------------------------------------------- C18
\* the entry of this id exists and is its product's most recently created,
\* incremented or edited one
IsLastCounted(id) ==
    /\ id \in Ids(ledger)
    /\ LastCountedLot(ledger, recency, EntryOf(ledger, id).codigo_produto)
         = Some(EntryOf(ledger, id))
\* C18: the last counted lot that a scan's matcher or the default lot
\* action uses for a product is an entry that exists in the ledger at that
\* time and is the product's most recently created, incremented or edited
\* one (none if the product has no entry); no increment is requested for
\* the id of an entry that has been deleted.
C18_LastCountedLotIsCurrent ==
    [][/\ \A i \in 1..Len(tasks) :
            IsScanAnswer(i)
            => /\ Get(tasks[i].resp).last_counted_lot
                    = LastCountedLot(ledger, recency,
                                     Get(tasks[i].resp).product.codigo_produto)
               /\ Len(tasks') = Len(tasks) => IsLastCounted(tasks'[i].req.id)
       /\ (/\ AddDefaultLot
           /\ Started
           /\ NewTask.route = "/add_to_last_counted_lot")
          => IsLastCounted(NewTask.req.id)]_vars

\* ----------------------------------------------------------------- C19
\* C19: the delete button of a row requests the deletion of that row's
\* entry and nothing else; a delete of an id that is in the ledger succeeds
\* and removes exactly that entry: the ledger is one entry shorter, and
\* every other entry keeps its id, lot fields, quantities and relative order.
C19_DeleteRemovesExactlyOne ==
    [][/\ \A r \in 1..Len(table) :
            DeleteProduct(r)
            => /\ Started
               /\ NewTask.route = "/delete_counted_product"
               /\ NewTask.req = [id |-> table[r].product.id]
               /\ ledger' = ledger
       /\ \A i \in 1..Len(tasks) :
            (/\ Served(i)
             /\ tasks[i].route = "/delete_counted_product"
             /\ tasks[i].req.id \in Ids(ledger))
            => /\ Succeeded(Get(tasks'[i].resp))
               /\ Len(ledger') = Len(ledger) - 1
               /\ tasks[i].req.id \notin Ids(ledger')
               /\ \E k \in 1..Len(ledger) :
                    /\ ledger[k].id = tasks[i].req.id
                    /\ ledger' = SubSeq(ledger, 1, k - 1)
                                    \o SubSeq(ledger, k + 1, Len(ledger))]_vars
\* the first of two entries has just been deleted: the second is all that
\* is left, with its id 2
C19_Witness ==
    /\ Len(ledger) = 1
    /\ ledger[1].id = 2
    /\ nextId = 3
    /\ \E i \in 1..Len(tasks) :
         /\ tasks[i].handler = "delete"
         /\ tasks[i].req.id = 1
         /\ IsSome(tasks[i].resp)
         /\ Succeeded(Get(tasks[i].resp))

\* ----------------------------------------------------------------- C20
\* the id of an edit request names no entry of the ledger
NamesNoEntry(req) == parseInt(req.id).nan \/ parseInt(req.id).n \notin Ids(ledger)
\* C20: an edit submitted for an id that is not in the ledger when the
\* request is served (the entry was deleted or the ledger cleared after the
\* form was opened) is answered with a failure, creates no entry and leaves
\* the ledger as it was; the page then reports the failure, keeps the form
\* open and starts no reload.
C20_EditOfAbsentIsNotFound ==
    [][/\ \A i \in 1..Len(tasks) :
            (/\ Served(i)
             /\ tasks[i].route = "/update_counted_product"
             /\ NamesNoEntry(tasks[i].req))
            => /\ ~Succeeded(Get(tasks'[i].resp))
               /\ ledger' = ledger
               /\ nextId' = nextId
       /\ \A i \in 1..Len(tasks) :
            (/\ Resumed(i)
             /\ tasks[i].handler = "save"
             /\ ~Succeeded(Get(tasks[i].resp)))
            => /\ flash' = "danger"
               /\ tasks' = RemoveAt(tasks, i)
               /\ editProductModal' = editProductModal
               /\ ledger' = ledger]_vars
\* the form was opened on entry 1, which has since been deleted; its save
\* has been refused and the ledger is still empty
C20_Witness ==
    /\ ledger = <<>>
    /\ nextId = 2
    /\ editProductModal.shown
    /\ editProductModal.id = IntStr(1)
    /\ \E i \in 1..Len(tasks) :
         /\ tasks[i].handler = "save"
         /\ tasks[i].req.id = IntStr(1)
         /\ tasks[i].resp = Some(Failure)

\* ----------------------------------------------------------------- C21
\* every entry has base >= 0 and multiplier >= 1
QuantitiesInRange ==
    \A k \in 1..Len(ledger) :
        ledger[k].quantidade_base >= 0 /\ ledger[k].multiplicador_usado >= 1
\* C21: in every reachable state each ledger entry has base >= 0 and
\* multiplier >= 1; an edit of an existing entry submitting a negative,
\* zero-multiplier, empty or non-numeric value is applied with base
\* defaulted to 0 and multiplier to 1 rather than refused, and the total
\* the edit form showed when it was submitted is the total that is stored.
C21_ClampedAndShownTotalStored ==
    /\ []QuantitiesInRange
    /\ [][\A i \in 1..Len(tasks) :
            (/\ Served(i)
             /\ tasks[i].handler = "save"
             /\ ~NamesNoEntry(tasks[i].req))
            => LET id == parseInt(tasks[i].req.id).n
                   b == parseInt(tasks[i].req.quantidade_base)
                   m == parseInt(tasks[i].req.multiplicador_usado)
               IN /\ Succeeded(Get(tasks'[i].resp))
                  /\ EntryOf(ledger', id).quantidade_base
                       = IF b.nan \/ b.n < 0 THEN 0 ELSE b.n
                  /\ EntryOf(ledger', id).multiplicador_usado
                       = IF m.nan \/ m.n < 1 THEN 1 ELSE m.n
                  /\ tasks[i].local.quantidade_total
                       = IntStr(EntryOf(ledger', id).quantidade_total)]_vars

\* ----------------------------------------------------------------- C22
\* the display string the specification gives for an entry
DisplayString(e) ==
    IF e.multiplicador_usado = 1
    THEN IntStr(e.quantidade_total)
    ELSE IntStr(e.quantidade_total) \o <<" ", "(">> \o IntStr(e.quantidade_base)
         \o <<" ", "x">> \o IntStr(e.multiplicador_usado) \o <<")">>
\* C22: for every lot row of the grouped view the quantity cell reads
\* "{total}" when the row's multiplier is 1 and
\* "{total} ({base} x{multiplier})" for every other multiplier.
C22_QuantityDisplayString ==
    \A r \in ItemRows : table[r].qtdText = DisplayString(table[r].product)
\* the view shows a row at multiplier 1 reading "1" and a row at
\* multiplier 3 reading "3 (1 x3)"
C22_Witness ==
    /\ \E r \in ItemRows :
         /\ table[r].product.multiplicador_usado = 1
         /\ table[r].qtdText = <<"1">>
    /\ \E r \in ItemRows :
         /\ table[r].product.multiplicador_usado = 3
         /\ table[r].qtdText = <<"3", " ", "(", "1", " ", "x", "3", ")">>

\* ----------------------------------------------------------------- C23
\* request j of the next state is a create-or-increment request that was
\* not in flight before this step
NewAddRequest(j) ==
    /\ tasks'[j].route = "/add_to_selected_lot"
    /\ \A i \in 1..Len(tasks) :
         ~(tasks[i].route = "/add_to_selected_lot" /\ tasks[i].req = tasks'[j].req)
\* C23: a current product is only ever set from the answer of a successful
\* lookup; a create-or-increment request is only started by a button press
\* made while there is a current product, and carries that product's code
\* and one of the lots of its lookup; an entry is only created by the
\* server handling such a request, with the request's product and lot; no
\* other step (scan, increment, save of an edit, delete, clear) creates one.
C23_CreationFollowsLookup ==
    [][/\ (IsSome(currentProductDetails')
           /\ currentProductDetails' # currentProductDetails)
          => \E i \in 1..Len(tasks) :
                /\ IsScanAnswer(i)
                /\ currentProductDetails' = tasks[i].resp
                /\ Get(tasks[i].resp).product.codigo_barras = tasks[i].req.barcode
       /\ \A j \in 1..Len(tasks') :
            NewAddRequest(j)
            => /\ Started
               /\ j = Len(tasks')
               /\ IsSome(currentProductDetails)
               /\ tasks'[j].req.codigo_produto
                    = Get(currentProductDetails).product.codigo_produto
               /\ LotOffered(Get(currentProductDetails), tasks'[j].req)
       /\ Len(ledger') > Len(ledger)
          => \E i \in 1..Len(tasks) :
                /\ Settled(i)
                /\ tasks[i].route = "/add_to_selected_lot"
                /\ Len(ledger') = Len(ledger) + 1
                /\ SubSeq(ledger', 1, Len(ledger)) = ledger
                /\ SameTuple(ledger'[Len(ledger')], tasks[i].req)]_vars
\* the first entry has just been created for the current product, from one
\* of the lots of its lookup
C23_Witness ==
    /\ Len(ledger) = 1
    /\ IsSome(currentProductDetails)
    /\ ledger[1].codigo_produto = Get(currentProductDetails).product.codigo_produto
    /\ LotOffered(Get(currentProductDetails), ledger[1])
    /\ \E i \in 1..Len(tasks) :
         /\ tasks[i].route = "/add_to_selected_lot"
         /\ IsSome(tasks[i].resp)
         /\ Succeeded(Get(tasks[i].resp))
         /\ SameTuple(ledger[1], tasks[i].req)

\* ----------------------------------------------------------------- C24
\* a core operation (scan, lot commit, increment, edit, delete, clear-all)
\* has issued its request and not yet consumed the answer
OperationUnderWay == \E i \in 1..Len(tasks) : tasks[i].handler # "load"
\* this step is a handler that reads the current product
ReadsCurrentProduct ==
    \/ AddDefaultLot
    \/ SelectDifferentLot
    \/ AddManualLot
    \/ \E selectedRadio \in Radios, text \in QuantityTexts :
           AddSelectedLot(selectedRadio, text)
    \/ \E selectedRadio \in Radios : AddQuickLot(selectedRadio)
\* C24: core operations never overlap: from the moment an operation issues
\* its request until its answer has been consumed, no other operation's
\* request is issued and no other handler reads or writes the current
\* product or the ledger.
C24_OperationsNeverOverlap ==
    [][OperationUnderWay
       => /\ ~Started
          /\ ~ReadsCurrentProduct
          /\ (ledger' # ledger \/ currentProductDetails' # currentProductDetails)
             => \E i \in 1..Len(tasks) :
                   /\ tasks[i].handler # "load"
                   /\ Settled(i) \/ Resumed(i)]_vars

\* ----------------------------------------------------------------- C25
\* the entries the lot rows of the table show, in order
ShownEntries ==
    LET items == SelectSeq(table, LAMBDA row : row.kind = "item")
    IN [k \in 1..Len(items) |-> items[k].product]
\* C25: whenever no request is in flight, the lot rows of the table show
\* exactly the entries of the current ledger, in the ledger's order, after
\* any sequence of successful or failed scans, commits, edits, deletes and
\* clear-all, also when a reload fails.
C25_ViewNeverDrifts == tasks = <<>> => ShownEntries = ledger

\* ----------------------------------------------------------------- C26
\* C26 as the specification states it, failure part: a clear request that
\* fails leaves the ledger unchanged.
C26_FailedClearLeavesLedger ==
    [][\A i \in 1..Len(tasks) :
         (/\ Settled(i)
          /\ tasks[i].route = "/clear_counted_products"
          /\ ~Succeeded(Get(tasks'[i].resp)))
         => ledger' = ledger]_vars
\* C26, amended: a clear request that the server handles empties the
\* ledger, and a lookup answered on the empty ledger reports no last
\* counted lot; when the page receives the success it empties the table,
\* hides the card and clears the current product; when the request does not
\* reach the server the ledger is unchanged; when the page receives a
\* failure or no answer it leaves the table and the current product as they
\* are, although the ledger is empty if only the answer was lost.
C26_ClearAll ==
    [][/\ \A i \in 1..Len(tasks) :
            (Settled(i) /\ tasks[i].route = "/clear_counted_products")
            => /\ Get(tasks'[i].resp) # NetworkFailure => Succeeded(Get(tasks'[i].resp))
               /\ ledger' = <<>> \/ ledger' = ledger
               /\ Succeeded(Get(tasks'[i].resp)) => ledger' = <<>>
               /\ ledger' = <<>> => recency' = <<>>
       /\ \A i \in 1..Len(tasks) :
            (/\ Served(i) /\ tasks[i].route = "/search_product"
             /\ ledger = <<>> /\ Succeeded(Get(tasks'[i].resp)))
            => ~IsSome(Get(tasks'[i].resp).last_counted_lot)
       /\ \A i \in 1..Len(tasks) :
            (Resumed(i) /\ tasks[i].handler = "clear")
            => /\ tasks' = RemoveAt(tasks, i)
               /\ ledger' = ledger
               /\ IF Succeeded(Get(tasks[i].resp))
                  THEN /\ ShownEntries' = <<>>
                       /\ table' = <<EmptyRow>>
                       /\ currentProductDetails' = None
                       /\ productDetailsCard' = FALSE
                  ELSE /\ table' = table
                       /\ currentProductDetails' = currentProductDetails
                       /\ productDetailsCard' = productDetailsCard]_vars
\* an entry had been counted; the ledger was cleared, the page shows an
\* empty table and no product, and the next scan has been answered with no
\* last counted lot
C26_Witness ==
    /\ ledger = <<>>
    /\ nextId = 2
    /\ table = <<EmptyRow>>
    /\ currentProductDetails = None
    /\ \E i \in 1..Len(tasks) :
         /\ tasks[i].route = "/search_product"
         /\ IsSome(tasks[i].resp)
         /\ Succeeded(Get(tasks[i].resp))
         /\ ~IsSome(Get(tasks[i].resp).last_counted_lot)

\* ----------------------------------------------------------------- C27
\* a lookup result for a product with no available lot and no counted entry
NothingToCount(data) ==
    /\ Succeeded(data)
    /\ data.lotes = <<>>
    /\ ~IsSome(data.last_counted_lot)
\* C27: the scan of a product that has no available lot and has never been
\* counted only displays the product; while that product is the current
\* product, no follow-up action (default lot, select different lot, manual
\* lot, add selected, quick add) starts a request or changes the ledger,
\* and the lot selection dialog does not open: the action only reports.
\* Only the answer of another successful lookup leads to a request again.
C27_NothingCountedWithoutLots ==
    [][/\ \A i \in 1..Len(tasks) :
            (IsScanAnswer(i) /\ NothingToCount(Get(tasks[i].resp)))
            => /\ tasks' = RemoveAt(tasks, i)
               /\ ledger' = ledger
               /\ currentProductDetails' = tasks[i].resp
       /\ (/\ IsSome(currentProductDetails)
           /\ NothingToCount(Get(currentProductDetails))
           /\ ReadsCurrentProduct)
          => /\ tasks' = tasks
             /\ ledger' = ledger
             /\ selectLotModal' = selectLotModal
             /\ flash' \in {"warning", "danger"}
       /\ (/\ IsSome(currentProductDetails)
           /\ NothingToCount(Get(currentProductDetails))
           /\ ~\E i \in 1..Len(tasks) : IsScanAnswer(i))
          => \A j \in 1..Len(tasks') :
                /\ ~NewAddRequest(j)
                /\ tasks'[j].route = "/add_to_last_counted_lot"
                   => \E i \in 1..Len(tasks) : tasks[i].req = tasks'[j].req]_vars
\* the product displayed has no lot and no counted entry, and an action on
\* it has just been refused with a warning
C27_Witness ==
    /\ IsSome(currentProductDetails)
    /\ NothingToCount(Get(currentProductDetails))
    /\ productDetailsCard
    /\ flash = "warning"
    /\ ~selectLotModal.shown
    /\ tasks = <<>>
    /\ ledger = <<>>

\* ----------------------------------------------------------------- C28
\* the request names the product of the dialog and the lot of the row whose
\* radio button is checked
CommitsDialogChoice(req, selectedRadio) ==
    /\ req.nome_produto = selectLotModal.productName
    /\ SameLot(req, selectLotModal.rows[parseInt(Get(selectedRadio)).n + 1])
\* C28: the product and lot posted from the lot selection dialog are the
\* product named in the dialog and the lot of the row the operator selected
\* in it, also when the answer of another lookup has arrived since the
\* dialog was opened.
C28_DialogChoiceCommitted ==
    [][/\ \A selectedRadio \in Radios, text \in QuantityTexts :
            (AddSelectedLot(selectedRadio, text) /\ Started)
            => CommitsDialogChoice(NewTask.req, selectedRadio)
       /\ \A selectedRadio \in Radios :
            (AddQuickLot(selectedRadio) /\ Started)
            => CommitsDialogChoice(NewTask.req, selectedRadio)]_vars

\* ----------------------------------------------------------------- C29
\* request t was issued for the product of lookup result data: a lot commit
\* of that product, or an increment of its last counted entry
IssuedFor(t, data) ==
    \/ /\ t.route = "/add_to_selected_lot"
       /\ t.req.codigo_produto = data.product.codigo_produto
    \/ /\ t.route = "/add_to_last_counted_lot"
       /\ IsSome(data.last_counted_lot)
       /\ t.req.id = Get(data.last_counted_lot).id
\* C29: once a lookup of a product has succeeded without auto-increment,
\* that product stays the current product until a lot commit for it
\* succeeds, the default lot action for it completes, a clear-all succeeds,
\* or the answer of another lookup arrives; the completion of a request
\* issued for an earlier product never clears or replaces it.
C29_CurrentProductStays ==
    [][(/\ IsSome(currentProductDetails)
        /\ ~LastCountedOffered(Get(currentProductDetails))
        /\ currentProductDetails' # currentProductDetails)
       => \E i \in 1..Len(tasks) :
             /\ Resumed(i)
             /\ \/ tasks[i].handler = "search"
                \/ tasks[i].handler = "clear" /\ Succeeded(Get(tasks[i].resp))
                \/ /\ tasks[i].handler \in {"modalAdd", "defaultAdd", "defaultIncrement"}
                   /\ IssuedFor(tasks[i], Get(currentProductDetails))]_vars

\* ----------------------------------------------------------------- C30
\* a barcode scan is in flight: its lookup, or the increment it awaits
IsScan(t) == t.handler \in {"search", "scanIncrement"}
ScanPending == \E i \in 1..Len(tasks) : IsScan(tasks[i])
\* this step completes scan i: its handler returns
ScanCompleted(i) ==
    /\ Resumed(i)
    /\ IsScan(tasks[i])
    /\ tasks' = RemoveAt(tasks, i)
\* the outcomes of the completing step of scan i
ScanOutcome(o, i) ==
    LET data == Get(tasks[i].resp)
    IN CASE o = "incremented" ->
              /\ tasks[i].handler = "scanIncrement"
              /\ Succeeded(data)
              /\ currentProductDetails' = None
              /\ ~productDetailsCard'
         [] o = "awaiting" ->
              /\ tasks[i].handler = "search"
              /\ Succeeded(data)
              /\ currentProductDetails' = Some(data)
              /\ productDetailsCard'
              /\ flash' = "success"
         [] o = "error" ->
              /\ ~Succeeded(data)
              /\ flash' = "danger"
              /\ currentProductDetails' = None
              /\ ~productDetailsCard'
ScanOutcomes == {"incremented", "awaiting", "error"}
\* l2 is l1 with the base quantity of entry id raised by one
IncrementedIn(l1, l2, id) ==
    /\ Len(l2) = Len(l1)
    /\ \E k \in 1..Len(l1) :
          /\ l1[k].id = id
          /\ l2[k].quantidade_base = l1[k].quantidade_base + 1
          /\ \A j \in 1..Len(l1) : j # k => l2[j] = l1[j]
\* C30: when every request is answered or fails, every submitted non-empty
\* barcode scan completes, in exactly one of three outcomes: an existing
\* entry incremented and the current product cleared; the product left as
\* the current product with the ledger unchanged; or an error reported, the
\* current product cleared and the ledger unchanged. The lookup never
\* changes the ledger, the awaited increment changes it only by raising one
\* existing entry by one when it is answered with success, and the
\* completing step itself leaves the ledger alone. No scan stays pending.
C30_ScanCompletes ==
    /\ ScanPending ~> ~ScanPending
    /\ [][/\ \A i \in 1..Len(tasks) :
               ScanCompleted(i)
               => /\ Cardinality({o \in ScanOutcomes : ScanOutcome(o, i)}) = 1
                  /\ ledger' = ledger
          /\ \A i \in 1..Len(tasks) :
               (Settled(i) /\ IsScan(tasks[i]))
               => IF /\ tasks[i].handler = "scanIncrement"
                     /\ Succeeded(Get(tasks'[i].resp))
                  THEN IncrementedIn(ledger, ledger', tasks[i].req.id)
                  ELSE ledger' = ledger]_vars
\* the increment awaited by a scan has been answered with success and has
\* raised the entry to 2: the scan's handler is about to return, the
\* product of its lookup still current
C30_Witness ==
    \E i \in 1..Len(tasks) :
        /\ tasks[i].handler = "scanIncrement"
        /\ IsSome(tasks[i].resp)
        /\ Succeeded(Get(tasks[i].resp))
        /\ IsSome(currentProductDetails)
        /\ \E k \in 1..Len(ledger) :
              /\ ledger[k].id = tasks[i].req.id
              /\ ledger[k].quantidade_base = 2

\* ----------------------------------------------------------------- C31
\* C31: whenever control is back with the event loop, requests in flight
\* and handler continuations interleaved in any order included, the product
\* details card is displayed if and only if there is a current product.
C31_CardIffCurrentProduct ==
    productDetailsCard <=> IsSome(currentProductDetails)
\* the card is up for the product of the latest lookup while the default lot
\* add of that product has been answered and another lookup is in flight
C31_Witness ==
    /\ productDetailsCard
    /\ IsSome(currentProductDetails)
    /\ \E i, j \in 1..Len(tasks) :
          /\ i # j
          /\ tasks[i].handler = "defaultAdd"
          /\ IsSome(tasks[i].resp)
          /\ Succeeded(Get(tasks[i].resp))
          /\ tasks[j].handler = "search"
          /\ ~IsSome(tasks[j].resp)

====
